---- MODULE Spec2Model ----
(***************************************************************************)
(* Model of github_scim_user_management.py: a script that reads a CSV     *)
(* file of users and creates the ones that do not exist yet through the   *)
(* SCIM Users endpoint of a GitHub Enterprise instance.                   *)
(*                                                                         *)
(* Python values are modelled as records [t, s, l]: t is the type tag     *)
(* ("absent" = key not in the dict, "none", "str", "list"), s the         *)
(* characters of a str, l the entries of a list.  A str is a sequence of  *)
(* one-character strings.                                                  *)
(***************************************************************************)
EXTENDS Integers, Sequences, FiniteSets, TLC

\* ------------------------------------------------------------------ bounds
MaxRows == 2
MaxRuns == 2
MaxLen == 3

\* ----------------------------------------------------------- Python values
Absent == [t |-> "absent", s |-> <<>>, l |-> <<>>]

PyNone == [t |-> "none", s |-> <<>>, l |-> <<>>]

PyStr(s) == [t |-> "str", s |-> s, l |-> <<>>]

PyList(l) == [t |-> "list", s |-> <<>>, l |-> l]

\* bool(x) of a value held in a row dict
Truthy(x) ==
    \/ x.t = "str" /\ x.s # <<>>
    \/ x.t = "list" /\ x.l # <<>>

\* dict.get(key, default)
DictGet(d, key, default) == IF d[key].t = "absent" THEN default ELSE d[key]

\* ----------------------------------------------------------------- strings
IsSpace(c) == c = " "

RECURSIVE LStrip(_)
LStrip(s) == IF s # <<>> /\ IsSpace(Head(s)) THEN LStrip(Tail(s)) ELSE s

RECURSIVE RStrip(_)
RStrip(s) ==
    IF s # <<>> /\ IsSpace(s[Len(s)]) THEN RStrip(SubSeq(s, 1, Len(s) - 1)) ELSE s

\* str.strip()
Strip(s) == RStrip(LStrip(s))

\* str.split(sep): one more part than there are separators
RECURSIVE SplitFrom(_, _, _)
SplitFrom(s, sep, cur) ==
    IF s = <<>> THEN <<cur>>
    ELSE IF Head(s) = sep THEN <<cur>> \o SplitFrom(Tail(s), sep, <<>>)
    ELSE SplitFrom(Tail(s), sep, Append(cur, Head(s)))

Split(s, sep) == SplitFrom(s, sep, <<>>)

\* --------------------------------------------------------------- CSV input
Columns == {"userName", "displayName", "emails", "roles"}

SeqIndex(h, c) == CHOOSE k \in 1..Len(h) : h[k] = c

InSeq(h, c) == \E k \in 1..Len(h) : h[k] = c

\* csv.DictReader: one dict per non-blank line, keyed by the header; a line
\* shorter than the header gives None for the missing cells
DictRow(header, cells) ==
    [c \in Columns |->
        IF ~InSeq(header, c) THEN Absent
        ELSE IF SeqIndex(header, c) > Len(cells) THEN PyNone
        ELSE PyStr(cells[SeqIndex(header, c)])]

EmailEntry(email) == [value |-> email, type |-> "work", primary |-> TRUE]

\* body of the loop of read_csv_file: rewrites the emails and roles cells
ProcessRow(row) ==
    LET email_list == [k \in 1..Len(Split(row["emails"].s, ";")) |->
                          Strip(Split(row["emails"].s, ";")[k])]
        role_list  == [k \in 1..Len(Split(row["roles"].s, ";")) |->
                          Strip(Split(row["roles"].s, ";")[k])]
    IN [row EXCEPT
          !["emails"] = IF row["emails"].t # "absent" /\ Truthy(row["emails"])
                        THEN PyList([k \in 1..Len(email_list) |-> EmailEntry(email_list[k])])
                        ELSE @,
          !["roles"]  = IF row["roles"].t # "absent" /\ Truthy(row["roles"])
                        THEN PyStr(role_list[1])
                        ELSE @]

RECURSIVE ReadRows(_, _)
ReadRows(header, lines) ==
    IF lines = <<>> THEN <<>>
    ELSE IF Head(lines) = <<>> THEN ReadRows(header, Tail(lines))
    ELSE <<ProcessRow(DictRow(header, Head(lines)))>> \o ReadRows(header, Tail(lines))

\* read_csv_file on a file that exists and can be read
read_csv_file(f) == ReadRows(f.header, f.lines)

\* ------------------------------------------------------- provisioning record
SchemaUrn == "urn:ietf:params:scim:schemas:core:2.0:User"

format_user_for_scim(user_data) ==
    [schemas     |-> <<SchemaUrn>>,
     externalId  |-> DictGet(user_data, "userName", PyStr(<<>>)),
     active      |-> TRUE,
     userName    |-> DictGet(user_data, "userName", PyStr(<<>>)),
     displayName |-> DictGet(user_data, "displayName", PyStr(<<>>)),
     emails      |-> DictGet(user_data, "emails", PyList(<<>>)),
     roles       |-> << [value   |-> DictGet(user_data, "roles", PyStr(<<"u", "s", "e", "r">>)),
                         primary |-> TRUE] >>]

\* ------------------------------------------------------------------ state
VARIABLES
    file,       \* the CSV file named by --csv
    server,     \* the Users collection held by the SCIM server
    pc,         \* position of main: "main", "loop", "get", "post", "exit"
    status,     \* exit status of the process, -1 while it runs
    users,      \* main's list returned by read_csv_file
    i,          \* position of the for loop of process_users in users
    scim_user,  \* process_users' local scim_user, <<>> until assigned
    requests,   \* calls of requests.request made by this run, in order
    log,        \* records written to the logger by this run, in order
    run,        \* number of the current invocation of the script
    prev        \* what the previous invocation left: server and failures

vars == <<file, server, pc, status, users, i, scim_user, requests, log, run, prev>>

\* --------------------------------------------------------------- the server
ScimEndpoint == "/scim/v2/enterprises/xfusion-digital-technologies/Users"

\* a record of the Users collection that was provisioned before the script
PreRecord(id, name) ==
    [id |-> id,
     body |-> [format_user_for_scim([c \in Columns |-> Absent])
                  EXCEPT !.externalId = PyStr(name), !.userName = PyStr(name),
                         !.displayName = PyStr(<<"o", "l", "d">>)]]

\* the server's answer to GET Users?filter=userName eq "<username>"
Resources(srv, username) == SelectSeq(srv, LAMBDA r : r.body.userName = PyStr(username))

\* the server's handling of POST Users
ServerCreate(srv, data) == Append(srv, [id |-> Len(srv) + 1, body |-> data])

\* ---------------------------------------------------------------- the client
Request(method, filter, row, data) ==
    [method |-> method, url |-> ScimEndpoint, filter |-> filter, row |-> row,
     data |-> data, outcome |-> "pending", found |-> 0]

\* faulty variant: the filter string is sent without the username substituted
list_request_literal(row, name) == Request("GET", << <<"x">> >>, row, <<>>)

\* list_users, lines 94-98: the GET it sends for a filter on userName
list_request(row, name) == Request("GET", <<name>>, row, <<>>)

\* faulty variant: the answer is read under a key it does not have
list_users_empty(response) == <<>>

\* list_users, line 99: response.get("Resources", []) of the answer to the GET
list_users(response) == response

\* faulty variant: the user is written with PUT
create_user_put(row, user_data) == Request("PUT", <<>>, row, <<user_data>>)

\* create_user: the POST it sends
create_user(row, user_data) == Request("POST", <<>>, row, <<user_data>>)

\* faulty variant: the first user of the answer is dropped
get_user_none(response) == <<>>

\* get_user: users[0] if users else None (None is <<>>, a user is <<user>>)
get_user(response) ==
    IF list_users(response) # <<>> THEN <<list_users(response)[1]>> ELSE <<>>

Log(level, msg, row) == [level |-> level, msg |-> msg, row |-> row]

\* the last request of the run gets its outcome
Settle(reqs, outcome, found) ==
    [reqs EXCEPT ![Len(reqs)] = [@ EXCEPT !.outcome = outcome, !.found = found]]

username == users[i]["userName"]

\* what the server answers to the GET in flight
Answer == Resources(server, requests[Len(requests)].filter[1])

\* -------------------------------------------------------------------- main
\* faulty variant: no return when the file has no rows
main_read_no_empty_check ==
    /\ pc = "main"
    /\ IF file.kind # "ok"
       THEN /\ log' = <<Log("error", "error_occurred", 0)>>
            /\ users' = <<>> /\ i' = 1 /\ pc' = "exit" /\ status' = 1
       ELSE /\ users' = read_csv_file(file)
            /\ i' = 1 /\ log' = <<>> /\ pc' = "loop" /\ status' = -1
    /\ UNCHANGED <<file, server, scim_user, requests, run, prev>>

\* main, lines 247-256 and 263-265: read the CSV file
main_read ==
    /\ pc = "main"
    /\ IF file.kind = "missing"
       THEN /\ log' = <<Log("error", "error_occurred", 0)>>
            /\ users' = <<>> /\ i' = 1 /\ pc' = "exit" /\ status' = 1
       ELSE IF file.kind = "unreadable"
       THEN /\ log' = <<Log("error", "csv_error", 0), Log("error", "error_occurred", 0)>>
            /\ users' = <<>> /\ i' = 1 /\ pc' = "exit" /\ status' = 1
       ELSE /\ users' = read_csv_file(file)
            /\ i' = 1
            /\ IF read_csv_file(file) = <<>>
               THEN /\ log' = <<Log("warning", "no_users", 0)>>
                    /\ pc' = "exit" /\ status' = 0
               ELSE /\ log' = <<>>
                    /\ pc' = "loop" /\ status' = -1
    /\ UNCHANGED <<file, server, scim_user, requests, run, prev>>

\* faulty variant: break instead of continue
row_skip_break ==
    /\ pc = "loop" /\ i <= Len(users)
    /\ ~Truthy(username)
    /\ log' = Append(log, Log("warning", "skip_missing", i))
    /\ i' = Len(users) + 1
    /\ UNCHANGED <<file, server, pc, status, users, scim_user, requests, run, prev>>

\* process_users, lines 218-222: a row without userName
row_skip ==
    /\ pc = "loop" /\ i <= Len(users)
    /\ ~Truthy(username)
    /\ log' = Append(log, Log("warning", "skip_missing", i))
    /\ i' = i + 1
    /\ UNCHANGED <<file, server, pc, status, users, scim_user, requests, run, prev>>

\* process_users, line 225: the existence check is sent
get_send ==
    /\ pc = "loop" /\ i <= Len(users)
    /\ Truthy(username)
    /\ requests' = Append(requests, list_request(i, username.s))
    /\ pc' = "get"
    /\ UNCHANGED <<file, server, status, users, i, scim_user, log, run, prev>>

\* faulty variant: the row is tried again after a failed GET
get_failed_retry ==
    /\ pc = "get"
    /\ requests' = Settle(requests, "fail", 0)
    /\ log' = log \o <<Log("error", "request_failed", i), Log("error", "error_processing", i)>>
    /\ pc' = "loop"
    /\ UNCHANGED <<file, server, status, users, i, scim_user, run, prev>>

\* the GET raises: _make_request logs and re-raises, process_users logs
get_failed ==
    /\ pc = "get"
    /\ requests' = Settle(requests, "fail", 0)
    /\ log' = log \o <<Log("error", "request_failed", i), Log("error", "error_processing", i)>>
    /\ i' = i + 1
    /\ pc' = "loop"
    /\ UNCHANGED <<file, server, status, users, scim_user, run, prev>>

\* the GET returns a user: lines 227-228
get_found ==
    /\ pc = "get"
    /\ get_user(Answer) # <<>>
    /\ requests' = Settle(requests, "ok", Len(Answer))
    /\ log' = Append(log, Log("info", "exists_skip", i))
    /\ i' = i + 1
    /\ pc' = "loop"
    /\ UNCHANGED <<file, server, status, users, scim_user, run, prev>>

\* the GET returns no user: lines 229-231, the create call is sent
get_absent ==
    /\ pc = "get"
    /\ get_user(Answer) = <<>>
    /\ scim_user' = <<format_user_for_scim(users[i])>>
    /\ requests' = Append(Settle(requests, "ok", Len(Answer)),
                          create_user(i, format_user_for_scim(users[i])))
    /\ log' = Append(log, Log("info", "creating", i))
    /\ pc' = "post"
    /\ UNCHANGED <<file, server, status, users, i, run, prev>>

\* the POST returns: line 232
post_ok ==
    /\ pc = "post"
    /\ server' = ServerCreate(server, scim_user[1])
    /\ requests' = Settle(requests, "ok", 0)
    /\ log' = Append(log, Log("info", "created", i))
    /\ i' = i + 1
    /\ pc' = "loop"
    /\ UNCHANGED <<file, status, users, scim_user, run, prev>>

\* faulty variant: the exception of the POST reaches main
post_failed_raise ==
    /\ pc = "post"
    /\ \E stored \in BOOLEAN :
          server' = IF stored THEN ServerCreate(server, scim_user[1]) ELSE server
    /\ requests' = Settle(requests, "fail", 0)
    /\ log' = log \o <<Log("error", "request_failed", i), Log("error", "error_processing", i),
                        Log("error", "error_occurred", 0)>>
    /\ pc' = "exit"
    /\ status' = 1
    /\ UNCHANGED <<file, users, i, scim_user, run, prev>>

\* the POST raises; the server may or may not have stored the user
post_failed ==
    /\ pc = "post"
    /\ \E stored \in BOOLEAN :
          server' = IF stored THEN ServerCreate(server, scim_user[1]) ELSE server
    /\ requests' = Settle(requests, "fail", 0)
    /\ log' = log \o <<Log("error", "request_failed", i), Log("error", "error_processing", i)>>
    /\ i' = i + 1
    /\ pc' = "loop"
    /\ UNCHANGED <<file, status, users, scim_user, run, prev>>

\* main, line 261: process_users has returned
main_done ==
    /\ pc = "loop" /\ i > Len(users)
    /\ log' = Append(log, Log("info", "completed", 0))
    /\ pc' = "exit"
    /\ status' = 0
    /\ UNCHANGED <<file, server, users, i, scim_user, requests, run, prev>>

Failed(reqs) == \E k \in 1..Len(reqs) : reqs[k].outcome = "fail"

\* the script is started again on the same file against the same server
rerun ==
    /\ pc = "exit" /\ run < MaxRuns
    /\ run' = run + 1
    /\ prev' = [server |-> server, failed |-> Failed(requests), status |-> status]
    /\ pc' = "main"
    /\ status' = -1
    /\ users' = <<>> /\ i' = 1 /\ scim_user' = <<>> /\ requests' = <<>> /\ log' = <<>>
    /\ UNCHANGED <<file, server>>

\* ------------------------------------------------------------ initial states
Name == {<<"a">>, <<"b">>}

FullHeader == <<"userName", "displayName", "emails", "roles">>

NoNameHeader == <<"displayName", "emails", "roles">>

FullLines ==
    {<<u, <<"A">>, <<"e">>, <<"r">>>> : u \in Name \cup {<<>>}} \cup {<<>>, << <<"a">> >>}

NoNameLines == {<< <<"A">>, <<"e">>, <<"r">> >>}

SeqsUpTo(S, n) == UNION {[1..k -> S] : k \in 0..n}

Files ==
    {[kind |-> k, header |-> <<>>, lines |-> <<>>] : k \in {"missing", "unreadable"}}
    \cup {[kind |-> "ok", header |-> FullHeader, lines |-> ls] : ls \in SeqsUpTo(FullLines, MaxRows)}
    \cup {[kind |-> "ok", header |-> NoNameHeader, lines |-> ls] : ls \in SeqsUpTo(NoNameLines, MaxRows)}

Servers ==
    {<<>>, <<PreRecord(1, <<"a">>)>>, <<PreRecord(1, <<"b">>)>>,
     <<PreRecord(1, <<"a">>), PreRecord(2, <<"b">>)>>}

InitRest ==
    /\ pc = "main"
    /\ status = -1
    /\ users = <<>>
    /\ i = 1
    /\ scim_user = <<>>
    /\ requests = <<>>
    /\ log = <<>>
    /\ run = 1
    /\ prev = [server |-> <<>>, failed |-> FALSE, status |-> -1]

Init ==
    /\ file \in Files
    /\ server \in Servers
    /\ InitRest

Next ==
    \/ main_read
    \/ row_skip
    \/ get_send
    \/ get_failed
    \/ get_found
    \/ get_absent
    \/ post_ok
    \/ post_failed
    \/ main_done
    \/ rerun

Spec == Init /\ [][Next]_vars

\* ------------------------------------- format_user_for_scim on arbitrary rows
Alphabet == {"a", ";", " "}

Cells == SeqsUpTo(Alphabet, MaxLen)

FmtHeaders ==
    {FullHeader, <<"userName", "displayName", "emails">>, <<"userName", "displayName">>,
     <<"userName", "displayName", "roles">>}

FmtLines(header) ==
    LET full == {[k \in 1..Len(header) |->
                     IF header[k] = "emails" THEN e
                     ELSE IF header[k] = "roles" THEN r
                     ELSE <<"a">>] : e \in Cells, r \in Cells}
    IN  {SubSeq(l, 1, n) : l \in full, n \in 1..Len(header)}

FmtFiles ==
    UNION {{[kind |-> "ok", header |-> h, lines |-> <<l>>] : l \in FmtLines(h)} : h \in FmtHeaders}

InitFmt ==
    /\ file \in FmtFiles
    /\ server = <<>>
    /\ InitRest

\* format_user_for_scim applied to the next row read from the file
fmt_apply ==
    /\ pc = "loop" /\ i <= Len(users)
    /\ scim_user' = <<format_user_for_scim(users[i])>>
    /\ i' = i + 1
    /\ UNCHANGED <<file, server, pc, status, users, requests, log, run, prev>>

NextFmt ==
    \/ main_read
    \/ fmt_apply

SpecFmt == InitFmt /\ [][NextFmt]_vars

\* ------------------------------------------------------------- vocabulary
Reqs(method, row) ==
    {k \in 1..Len(requests) : requests[k].method = method /\ requests[k].row = row}

HasName(r) == Truthy(users[r]["userName"])

Logged(msg, row) == \E k \in 1..Len(log) : log[k].msg = msg /\ log[k].row = row

\* the existence check of row r returned and found no record
CheckedAbsent(r) ==
    \E k \in Reqs("GET", r) : requests[k].outcome = "ok" /\ requests[k].found = 0

\* the existence check of row r returned and found a record
CheckedFound(r) ==
    \E k \in Reqs("GET", r) : requests[k].outcome = "ok" /\ requests[k].found > 0

\* ----------------------------------------------------------------- claims

\* C1: for every row with a non-empty userName, a POST for that userName has
\* been sent iff the row's existence check returned without a record, and
\* every POST of a row comes after that returned check of the same row.
C1_CreateIffAbsent ==
    \A r \in 1..Len(users) : HasName(r) =>
        /\ (Reqs("POST", r) # {}) <=> CheckedAbsent(r)
        /\ \A k \in Reqs("POST", r) :
              /\ requests[k].data[1].userName = users[r]["userName"]
              /\ \E j \in Reqs("GET", r) :
                    j < k /\ requests[j].outcome = "ok" /\ requests[j].found = 0

C1_Witness ==
    /\ pc = "exit"
    /\ \E r \in 1..Len(users) : HasName(r) /\ Reqs("POST", r) # {}
    /\ \E r \in 1..Len(users) : HasName(r) /\ CheckedFound(r) /\ Reqs("POST", r) = {}

C3_NoUpdateNoDelete ==
    [][ /\ \A k \in 1..Len(requests') :
              requests'[k].method \in {"GET", "POST"} /\ requests'[k].url = ScimEndpoint
        /\ Len(server') >= Len(server)
        /\ \A k \in 1..Len(server) : server'[k] = server[k]
        /\ (pc = "get" /\ Resources(server, username.s) # <<>> /\ requests'[Len(requests)].outcome = "ok")
              => /\ server' = server
                 /\ i' = i + 1
                 /\ \A k \in 1..Len(requests') :
                       ~(requests'[k].method = "POST" /\ requests'[k].row = i)
      ]_vars

C3_Witness ==
    /\ pc = "exit"
    /\ \E k \in 1..Len(server) : server[k].body.displayName = PyStr(<<"o", "l", "d">>)
    /\ \E r \in 1..Len(users) : CheckedFound(r)
    /\ \E r \in 1..Len(users) : Reqs("POST", r) # {}

\* C4: no two records of the server have the same userName, and a run has at
\* most one successful POST per userName, also when rows repeat a userName.
C4_UniqueUserName ==
    /\ \A k, j \in 1..Len(server) :
          k # j => server[k].body.userName # server[j].body.userName
    /\ \A k, j \in 1..Len(requests) :
          (/\ k # j
           /\ requests[k].method = "POST" /\ requests[k].outcome = "ok"
           /\ requests[j].method = "POST" /\ requests[j].outcome = "ok")
          => requests[k].data[1].userName # requests[j].data[1].userName

C4_Witness ==
    /\ pc = "exit"
    /\ \E r, q \in 1..Len(users) :
          /\ r < q /\ HasName(r) /\ users[r]["userName"] = users[q]["userName"]
          /\ \E k \in Reqs("POST", r) : requests[k].outcome = "ok"
          /\ CheckedFound(q)

\* C5: a row gets at most one GET and at most one POST, nothing is sent for
\* a row after one of its requests failed, and a run over n rows sends at
\* most n GETs and n POSTs.
C5_NoRetry ==
    /\ \A r \in 1..Len(users) :
          Cardinality(Reqs("GET", r)) <= 1 /\ Cardinality(Reqs("POST", r)) <= 1
    /\ \A k \in 1..Len(requests) :
          /\ requests[k].row \in 1..Len(users)
          /\ requests[k].outcome = "fail" =>
                \A j \in 1..Len(requests) : j > k => requests[j].row # requests[k].row
    /\ Cardinality({k \in 1..Len(requests) : requests[k].method = "GET"}) <= Len(users)
    /\ Cardinality({k \in 1..Len(requests) : requests[k].method = "POST"}) <= Len(users)

C5_Witness ==
    /\ pc = "exit"
    /\ \E k, j \in 1..Len(requests) :
          /\ requests[k].method = "GET" /\ requests[k].outcome = "fail"
          /\ requests[j].method = "POST" /\ requests[j].outcome = "fail"

\* C6 as stated: once a request of a row has failed, no request is sent for
\* a later row, and the program exits with status 1 without logging that the
\* operation completed.
C6_FailureExits ==
    \A k \in 1..Len(requests) : requests[k].outcome = "fail" =>
        /\ \A j \in 1..Len(requests) : requests[j].row <= requests[k].row
        /\ pc = "exit" => (status = 1 /\ ~Logged("completed", 0))

\* C6 amended: a failed request of a row is logged as an error of that row
\* and nothing more is sent for that row; the later rows are still processed,
\* and the program ends with status 0 after logging that it completed.
C6_FailureLoggedRowSkipped ==
    \A k \in 1..Len(requests) : requests[k].outcome = "fail" =>
        /\ Logged("request_failed", requests[k].row)
        /\ Logged("error_processing", requests[k].row)
        /\ \A j \in 1..Len(requests) : j > k => requests[j].row > requests[k].row
        /\ pc = "exit" =>
              /\ status = 0
              /\ Logged("completed", 0)
              /\ \A r \in 1..Len(users) :
                    (r > requests[k].row /\ HasName(r)) => Reqs("GET", r) # {}

C6_Witness ==
    /\ pc = "exit"
    /\ \E k \in 1..Len(requests) :
          /\ requests[k].outcome = "fail"
          /\ \E r \in 1..Len(users) : r > requests[k].row /\ Reqs("GET", r) # {}

FixedFields ==
    {"schemas", "externalId", "active", "userName", "displayName", "emails", "roles"}

\* C7: every provisioning record has exactly the fixed fields, externalId
\* equal to userName, active true, emails a list of email entries, and roles a
\* list of exactly one entry marked primary.
C7_FixedShape ==
    \A k \in 1..Len(scim_user) :
        /\ DOMAIN scim_user[k] = FixedFields
        /\ scim_user[k].schemas = <<SchemaUrn>>
        /\ scim_user[k].externalId = scim_user[k].userName
        /\ scim_user[k].active = TRUE
        /\ scim_user[k].emails.t = "list"
        /\ \A e \in 1..Len(scim_user[k].emails.l) :
              DOMAIN scim_user[k].emails.l[e] = {"value", "type", "primary"}
        /\ Len(scim_user[k].roles) = 1
        /\ scim_user[k].roles[1].primary = TRUE

\* the roles cell of the line that users[r] was read from
RolesCell(r) == DictRow(file.header, file.lines[r])["roles"]

\* C9: the role of a provisioning record is the first role listed in the
\* row's roles cell, is "user" when the roles column is absent or the cell is
\* empty, and is never the empty string.
C9_RoleFirstOrDefault ==
    \A k \in 1..Len(scim_user) :
        /\ scim_user[k].roles[1].value =
              IF Truthy(RolesCell(i - 1))
              THEN PyStr(Strip(Split(RolesCell(i - 1).s, ";")[1]))
              ELSE PyStr(<<"u", "s", "e", "r">>)
        /\ scim_user[k].roles[1].value # PyStr(<<>>)

\* C8: nothing is sent for a row without userName, requests follow the order
\* of the rows, and the rows after a skipped row are still handled: when the
\* loop is over every row with a userName has had its existence check.
C8_EmptyNameSkipped ==
    /\ \A r \in 1..Len(users) : ~HasName(r) =>
          /\ Reqs("GET", r) = {} /\ Reqs("POST", r) = {}
          /\ r < i => Logged("skip_missing", r)
    /\ \A k, j \in 1..Len(requests) : k < j => requests[k].row <= requests[j].row
    /\ \A r \in 1..Len(users) : (HasName(r) /\ r < i) => Reqs("GET", r) # {}
    /\ (pc = "exit" /\ users # <<>>) => i = Len(users) + 1

C8_Witness ==
    /\ pc = "exit"
    /\ \E r, q \in 1..Len(users) :
          r < q /\ ~HasName(r) /\ HasName(q) /\ Reqs("GET", q) # {}

\* C10: when the CSV file cannot be read nothing is sent and the program
\* exits with status 1; when it yields no rows nothing is sent and the program
\* ends without failure status and without logging that it completed.
C10_NoInputNoRequest ==
    /\ file.kind # "ok" =>
          /\ requests = <<>>
          /\ pc \in {"main", "exit"}
          /\ pc = "exit" => (status = 1 /\ Logged("error_occurred", 0))
    /\ (file.kind = "ok" /\ read_csv_file(file) = <<>>) =>
          /\ requests = <<>>
          /\ pc \in {"main", "exit"}
          /\ pc = "exit" => (status = 0 /\ ~Logged("completed", 0))

C10_Witness ==
    /\ pc = "exit" /\ run = 2
    /\ file.kind = "ok" /\ file.lines # <<>> /\ users = <<>>
    /\ Logged("no_users", 0)

====
